---------------------------- MODULE Spec2Model ----------------------------
(***************************************************************************)
(* A model of webdev-mcp's screen-capture core (src/src/take-screenshot.ts)*)
(*                                                                         *)
(*   takeScreenshot       the capture engine: one invocation per call,     *)
(*                        stepping from await to await                     *)
(*   getAvailableScreens  the display enumerator, also called by the       *)
(*                        capture engine on darwin                         *)
(*                                                                         *)
(* Text is modelled as a sequence of lines, a line as a label (a sequence  *)
(* of words, the text before its first colon) and a value (the text        *)
(* between its first and its second colon, trimmed).  The temp directory   *)
(* is a function from paths to file contents.                              *)
(***************************************************************************)
EXTENDS Integers, Sequences, FiniteSets, TLC

(***************************************************************************)
(* Bounds of the model.                                                    *)
(***************************************************************************)
NumInvocations == 2     \* concurrent invocations of the two operations
MaxClock == 1           \* Date.now() ranges over 0..MaxClock
MaxElapsed == 2         \* milliseconds a child process is observed running
MaxScreenId == 3        \* requested screen ids range over 1..MaxScreenId
MaxLines == 5           \* lines of introspection output (enumerator runs)
MaxGrepLines == 3       \* lines of the resolution-filtered output

Invocations == 1..NumInvocations

\* An optional value: << >> when the option is absent, << v >> when it is v.
Absent == << >>
Some(v) == << v >>

(***************************************************************************)
(* Introspection text.                                                     *)
(***************************************************************************)
Line(label, value) == [label |-> label, value |-> value]

\* The lines the introspection command is taken to print below its
\* "Graphics/Displays:" header.  "Resolution:" is a single-word label, as
\* system_profiler prints it.
LineKinds ==
    { Line(<<"Resolution">>, "2560 x 1600"),
      Line(<<"Display", "Type">>, "LCD"),
      Line(<<"UI", "Resolution">>, "1920 x 1080"),
      Line(<<"UI", "Resolution">>, "819 x 1456"),
      Line(<<"Display", "Name">>, "Studio") }

\* All sequences over S of length at most n.
SeqsUpTo(S, n) == UNION { [1..k -> S] : k \in 0..n }

\* A fragment: what is left of a line once a separator has consumed its label.
Fragment(value) == Line(<< >>, value)

\* String.includes on a line, for the needles the code uses.
IncludesLabelColon(line, word) ==
    /\ Len(line.label) > 0
    /\ line.label[Len(line.label)] = word
IncludesWord(line, word) ==
    \E i \in 1..Len(line.label) : line.label[i] = word
IncludesDisplayType(line) ==
    \E i \in 1..(Len(line.label) - 1) :
        line.label[i] = "Display" /\ line.label[i + 1] = "Type"

IsHeader(line) == line.label = <<"Graphics/Displays">>

\* /^\s*\w+:/m matches a line that starts with one word and a colon.
IsMarker(line) ==
    /\ Len(line.label) = 1
    /\ line.label[1] # "Graphics/Displays"

IsSeparator(sep, line) ==
    IF sep = "Graphics/Displays:" THEN IsHeader(line) ELSE IsMarker(line)

\* String.split on a separator that consumes a whole label: the pieces are
\* the runs of lines between separators, each piece after the first starting
\* with the fragment of the separator's line.
RECURSIVE SplitLines(_, _, _, _)
SplitLines(lines, sep, pieces, cur) ==
    IF lines = << >> THEN Append(pieces, cur)
    ELSE IF IsSeparator(sep, Head(lines))
         THEN SplitLines(Tail(lines), sep, Append(pieces, cur),
                         << Fragment(Head(lines).value) >>)
         ELSE SplitLines(Tail(lines), sep, pieces, Append(cur, Head(lines)))

\* section.trim().length > 0
NonBlank(piece) ==
    \E i \in 1..Len(piece) : piece[i].label # << >> \/ piece[i].value # ""

\* stdout.split("Graphics/Displays:").filter(section => section.trim().length > 0)
DisplayData(stdout) ==
    SelectSeq(SplitLines(stdout, "Graphics/Displays:", << >>, << >>), NonBlank)

IsDisplaySection(piece) ==
    \E i \in 1..Len(piece) :
        \/ IncludesDisplayType(piece[i])
        \/ IncludesWord(piece[i], "Resolution")
        \/ IncludesLabelColon(piece[i], "Type")

\* stdout.split(/^\s*\w+:/m).filter(...)
DisplaySections(stdout) ==
    SelectSeq(SplitLines(stdout, "marker", << >>, << >>), IsDisplaySection)

\* line.split(":")[1]?.trim()
FieldValue(line) == line.value

NoFields == [displayName |-> "", resolution |-> "", displayType |-> ""]

\* The scan of one section's lines: a later line overwrites an earlier one.
RECURSIVE ScanLines(_, _)
ScanLines(lines, f) ==
    IF lines = << >> THEN f
    ELSE LET line == Head(lines)
             v == FieldValue(line)
             g == IF IncludesDisplayType(line) \/ IncludesLabelColon(line, "Type")
                  THEN [f EXCEPT !.displayType = IF v # "" THEN v ELSE "Unknown"]
                  ELSE IF IncludesLabelColon(line, "Resolution")
                  THEN [f EXCEPT !.resolution = v]
                  ELSE IF IncludesLabelColon(line, "Name")
                  THEN [f EXCEPT !.displayName = v]
                  ELSE f
         IN ScanLines(Tail(lines), g)

SectionFields(section) == ScanLines(section, NoFields)

WithResolution(base, resolution) == base \o " (" \o resolution \o ")"

Describe(f) ==
    LET base == IF f.displayName # "" THEN f.displayName
                ELSE IF f.displayType # "" THEN f.displayType
                ELSE "Display"
    IN IF f.resolution # "" THEN WithResolution(base, f.resolution) ELSE base

Screen(id, description) == [id |-> id, description |-> description]

\* Mutant: the loop index taken as the id.
SectionIdMut(i) == i
\* id: i + 1, for the loop index i counting from 0
SectionId(i) == i + 1

\* for (let i = 0; i < displaySections.length; i++) displays.push(...)
RECURSIVE ParseLoop(_, _, _)
ParseLoop(sections, i, displays) ==
    IF i >= Len(sections) THEN displays
    ELSE ParseLoop(sections, i + 1,
                   Append(displays,
                          Screen(SectionId(i),
                                 Describe(SectionFields(sections[i + 1])))))

MainDisplay == << Screen(1, "Main Display") >>

\* screenInfo.split("\n").filter(line => line.includes("Resolution"))
Resolutions(screenInfo) ==
    SelectSeq(screenInfo, LAMBDA line : IncludesWord(line, "Resolution"))

ExternalLabel(i, resolution) ==
    IF i = 0 THEN WithResolution("Main Display", resolution)
    ELSE WithResolution("External Display " \o ToString(i), resolution)

RECURSIVE RebuildLoop(_, _, _)
RebuildLoop(resolutions, i, displays) ==
    IF i >= Len(resolutions) THEN displays
    ELSE RebuildLoop(resolutions, i + 1,
                     Append(displays,
                            Screen(i + 1,
                                   ExternalLabel(i, FieldValue(resolutions[i + 1])))))

\* Mutant: the alternative method is tried only for an empty list.
NeedsAlternativeMut(displays) == Len(displays) < 1
\* displays.length <= 1
NeedsAlternative(displays) == Len(displays) <= 1

\* The alternative method's effect on the list, given the filtered output.
Alternative(displays, screenInfo) ==
    LET resolutions == Resolutions(screenInfo)
    IN IF Len(resolutions) > 1
       THEN RebuildLoop(resolutions, 0, << >>)
       ELSE displays

PlaceholderDescription ==
    "Primary Screen (multi-screen selection not supported yet)"
Placeholder == << Screen(0, PlaceholderDescription) >>

(***************************************************************************)
(* The host, the temp directory and the invocations.                       *)
(***************************************************************************)
Platforms == {"darwin", "win32", "linux", "freebsd"}
Supported == {"darwin", "win32", "linux"}

\* path.join(tmpDir, `screenshot-${Date.now()}.png`)
RawPath(t) == "screenshot-" \o ToString(t) \o ".png"
\* path.join(tmpDir, `screenshot-resized-${Date.now()}.png`)
ResizedPath(t) == "screenshot-resized-" \o ToString(t) \o ".png"
NoPath == ""
Paths == { RawPath(t) : t \in 0..MaxClock } \cup { ResizedPath(t) : t \in 0..MaxClock }

\* A file's content: the invocation whose capture command drew the image,
\* and the image's dimensions.
File(by, size) == [by |-> by, size |-> size]
NoFile == File(0, "absent")
RawSize == "raw"
Canvas == "819x1456"

NoCommand == [tool |-> "none", display |-> 0, path |-> NoPath]

VARIABLES
    platform,   \* os.platform(), fixed for the process
    now,        \* Date.now()
    disk,       \* the temp directory: path -> file
    touched,    \* path -> the invocations that wrote, read or deleted it
    inv         \* invocation -> its locals, results and history

vars == << platform, now, disk, touched, inv >>

IdleInvocation ==
    [ op |-> "none",            \* "capture" | "list"
      pc |-> "Idle",
      screenIdOpt |-> Absent,   \* options.screenId
      timeoutOpt |-> Absent,    \* options.timeout
      screenId |-> 0,
      timeout |-> 0,            \* the timeout handed to exec
      screenshotPath |-> NoPath,
      resizedPath |-> NoPath,
      finalPath |-> NoPath,     \* the file read and returned
      cmd |-> NoCommand,
      elapsed |-> 0,
      stdout |-> << >>,         \* the introspection output the call read
      screenInfo |-> << >>,     \* the resolution-filtered output it read
      displays |-> << >>,       \* the enumerator's local list
      screens |-> << >>,        \* the enumerator's return value
      reran |-> FALSE,          \* the resolution-filtered run was started
      issued |-> {},            \* external commands executed
      created |-> {},           \* temp files this call created
      resizeRan |-> FALSE,
      bytes |-> NoFile,         \* screenshotData
      returned |-> NoFile,      \* the value the call resolved to
      logged |-> "",            \* the last console.error of the enumerator
      error |-> "" ]            \* the message of the error the call threw

Init ==
    /\ platform \in Platforms
    /\ now = 0
    /\ disk = [path \in Paths |-> NoFile]
    /\ touched = [path \in Paths |-> {}]
    /\ inv = [p \in Invocations |-> IdleInvocation]

Touch(t, path, p) == [t EXCEPT ![path] = @ \cup {p}]

(***************************************************************************)
(* getAvailableScreens                                                     *)
(***************************************************************************)
\* Mutant: the outer catch returns an empty list.
CatchResultMut == << >>
\* What the outer catch returns.
CatchResult == MainDisplay

\* Mutant: the introspection command is run whatever the platform.
EnumEnterMut(r) ==
    [r EXCEPT !.pc = "Profiling", !.issued = @ \cup {"system_profiler"}]
\* The call up to its first await, or to its return when there is none.
EnumEnter(r) ==
    IF platform = "darwin"
    THEN [r EXCEPT !.pc = "Profiling",
                   !.issued = @ \cup {"system_profiler"}]
    ELSE IF platform \in {"win32", "linux"}
    THEN [r EXCEPT !.pc = "Enumerated", !.screens = Placeholder]
    ELSE [r EXCEPT !.pc = "Enumerated",
                   !.logged = "Unsupported platform: " \o platform,
                   !.screens = CatchResult]

StartList(p) ==
    /\ inv[p].pc = "Idle"
    /\ inv' = [inv EXCEPT ![p] = EnumEnter([@ EXCEPT !.op = "list"])]
    /\ UNCHANGED << platform, now, disk, touched >>

\* The introspection command succeeded with `stdout`: the structured parse,
\* up to the next await or the return.
Profiled(r, stdout) ==
    LET displayData == DisplayData(stdout)
        displaySections == DisplaySections(stdout)
        parsed == ParseLoop(displaySections, 0, << >>)
        displays == IF Len(parsed) = 0 THEN MainDisplay ELSE parsed
        s == [r EXCEPT !.stdout = stdout]
    IN IF Len(displayData) = 0
       THEN [s EXCEPT !.pc = "Enumerated", !.screens = MainDisplay]
       ELSE IF Len(displaySections) = 0
       THEN [s EXCEPT !.pc = "Enumerated", !.screens = MainDisplay]
       ELSE IF NeedsAlternative(displays)
       THEN [s EXCEPT !.pc = "Grepping", !.displays = displays,
                      !.reran = TRUE,
                      !.issued = @ \cup {"system_profiler | grep"}]
       ELSE [s EXCEPT !.pc = "Enumerated", !.displays = displays,
                      !.screens = displays]

ExecProfilerOk(p, texts) ==
    /\ inv[p].pc = "Profiling"
    /\ \E stdout \in texts :
          inv' = [inv EXCEPT ![p] = Profiled(@, stdout)]
    /\ UNCHANGED << platform, now, disk, touched >>

ExecProfilerFail(p) ==
    /\ inv[p].pc = "Profiling"
    /\ inv' = [inv EXCEPT ![p] =
                 [@ EXCEPT !.pc = "Enumerated",
                           !.logged = "Command failed: system_profiler",
                           !.screens = CatchResult]]
    /\ UNCHANGED << platform, now, disk, touched >>

ExecGrepOk(p, outputs) ==
    /\ inv[p].pc = "Grepping"
    /\ \E screenInfo \in outputs :
          inv' = [inv EXCEPT ![p] =
                    LET displays == Alternative(@.displays, screenInfo)
                    IN [@ EXCEPT !.pc = "Enumerated",
                                 !.screenInfo = screenInfo,
                                 !.displays = displays,
                                 !.screens = displays]]
    /\ UNCHANGED << platform, now, disk, touched >>

\* The inner catch logs and the call returns the list it had.
ExecGrepFail(p) ==
    /\ inv[p].pc = "Grepping"
    /\ inv' = [inv EXCEPT ![p] =
                 [@ EXCEPT !.pc = "Enumerated",
                           !.logged = "Command failed: system_profiler | grep",
                           !.screens = inv[p].displays]]
    /\ UNCHANGED << platform, now, disk, touched >>

(***************************************************************************)
(* takeScreenshot                                                          *)
(***************************************************************************)
\* options.screenId !== undefined ? options.screenId : 1
ResolveScreenId(opt) == IF opt # Absent THEN opt[1] ELSE 1

\* Mutant: the timeout option is dropped.
ResolveTimeoutMut(opt) == 0
\* options.timeout || 0
ResolveTimeout(opt) == IF opt # Absent /\ opt[1] # 0 THEN opt[1] ELSE 0

\* Mutant: the catch logs the error and does not throw.
ThrownMut(r, cause) == [r EXCEPT !.pc = "Done"]
\* The catch of takeScreenshot: the call throws, wrapping the cause.
Thrown(r, cause) ==
    [r EXCEPT !.pc = "CaptureFailed",
              !.error = "Failed to capture screenshot: " \o cause]

\* screens.some(screen => screen.id === screenId)
DisplayExists(screens, screenId) ==
    \E i \in 1..Len(screens) : screens[i].id = screenId

\* Mutant: the requested display is targeted without the existence check.
DarwinCommandMut(screens, screenId, path) ==
    [tool |-> "screencapture", display |-> screenId, path |-> path]
\* The command for darwin, given the enumerator's list.
DarwinCommand(screens, screenId, path) ==
    IF DisplayExists(screens, screenId) \/ screenId = 1
    THEN [tool |-> "screencapture", display |-> screenId, path |-> path]
    ELSE [tool |-> "screencapture", display |-> 0, path |-> path]

Win32Command(path) == [tool |-> "powershell", display |-> 0, path |-> path]
LinuxCommand(path) == [tool |-> "import", display |-> 0, path |-> path]

\* The call up to its first await: the options, the temp path, the platform.
StartCapture(p, screenIds, timeouts) ==
    /\ inv[p].pc = "Idle"
    /\ \E sid \in screenIds, tmo \in timeouts :
          LET path == RawPath(now)
              r == [inv[p] EXCEPT !.op = "capture",
                                  !.screenIdOpt = sid,
                                  !.timeoutOpt = tmo,
                                  !.screenId = ResolveScreenId(sid),
                                  !.screenshotPath = path]
          IN inv' = [inv EXCEPT ![p] =
                 IF platform = "darwin" THEN EnumEnter(r)
                 ELSE IF platform = "win32"
                 THEN [r EXCEPT !.pc = "CommandBuilt", !.cmd = Win32Command(path)]
                 ELSE IF platform = "linux"
                 THEN [r EXCEPT !.pc = "CommandBuilt", !.cmd = LinuxCommand(path)]
                 ELSE Thrown(r, "Unsupported platform: " \o platform)]
    /\ UNCHANGED << platform, now, disk, touched >>

\* darwin: getAvailableScreens has returned to takeScreenshot.
BuildCommand(p) ==
    /\ inv[p].op = "capture"
    /\ inv[p].pc = "Enumerated"
    /\ inv' = [inv EXCEPT ![p] =
                 [@ EXCEPT !.pc = "CommandBuilt",
                           !.cmd = DarwinCommand(inv[p].screens, inv[p].screenId,
                                                 inv[p].screenshotPath)]]
    /\ UNCHANGED << platform, now, disk, touched >>

\* execAsync(cmd, { timeout: options.timeout || 0 })
ExecStart(p) ==
    /\ inv[p].pc = "CommandBuilt"
    /\ inv' = [inv EXCEPT ![p] =
                 [@ EXCEPT !.pc = "Executing",
                           !.timeout = ResolveTimeout(inv[p].timeoutOpt),
                           !.elapsed = 0,
                           !.issued = @ \cup {inv[p].cmd.tool}]]
    /\ UNCHANGED << platform, now, disk, touched >>

\* A millisecond passes while the capture command runs.
ExecTick(p) ==
    /\ inv[p].pc = "Executing"
    /\ inv[p].elapsed < (IF inv[p].timeout > 0 THEN inv[p].timeout ELSE MaxElapsed)
    /\ inv' = [inv EXCEPT ![p].elapsed = @ + 1]
    /\ UNCHANGED << platform, now, disk, touched >>

\* The capture command writes (or not) its output file.
Written(p, wrote) ==
    /\ disk' = IF wrote
               THEN [disk EXCEPT ![inv[p].screenshotPath] = File(p, RawSize)]
               ELSE disk
    /\ touched' = IF wrote THEN Touch(touched, inv[p].screenshotPath, p)
                  ELSE touched

\* exec's timer: armed only for a positive timeout.
TimedOut(r) == r.timeout > 0 /\ r.elapsed >= r.timeout

\* The capture command exits before the timeout, with status 0 or not.
ExecFinish(p) ==
    /\ inv[p].pc = "Executing"
    /\ ~TimedOut(inv[p])
    /\ \E ok \in BOOLEAN, wrote \in BOOLEAN :
          /\ Written(p, wrote)
          /\ LET r == [inv[p] EXCEPT !.created =
                          IF wrote THEN @ \cup {inv[p].screenshotPath} ELSE @]
             IN inv' = [inv EXCEPT ![p] =
                          IF ok THEN [r EXCEPT !.pc = "Captured"]
                          ELSE Thrown(r, "Command failed: " \o inv[p].cmd.tool)]
    /\ UNCHANGED << platform, now >>

\* The timeout elapses: exec kills the command and rejects.
ExecTimeout(p) ==
    /\ inv[p].pc = "Executing"
    /\ TimedOut(inv[p])
    /\ \E wrote \in BOOLEAN :
          /\ Written(p, wrote)
          /\ LET r == [inv[p] EXCEPT !.created =
                          IF wrote THEN @ \cup {inv[p].screenshotPath} ELSE @]
             IN inv' = [inv EXCEPT ![p] = Thrown(r, "Command timed out")]
    /\ UNCHANGED << platform, now >>

\* Mutant: every secondary display is resized.
NeedsResizeMut(screenId) == screenId >= 2
\* if (screenId === 2)
NeedsResize(screenId) == screenId = 2

\* The command succeeded: the resize is started, or the read.
AfterCapture(p) ==
    /\ inv[p].pc = "Captured"
    /\ inv' = [inv EXCEPT ![p] =
                 IF NeedsResize(inv[p].screenId)
                 THEN [@ EXCEPT !.pc = "Resizing",
                                !.resizeRan = TRUE,
                                !.resizedPath = ResizedPath(now)]
                 ELSE [@ EXCEPT !.pc = "Reading",
                                !.finalPath = inv[p].screenshotPath]]
    /\ UNCHANGED << platform, now, disk, touched >>

\* sharp(screenshotPath).resize(819, 1456, ...).toFile(resizedPath)
ResizeFinish(p) ==
    /\ inv[p].pc = "Resizing"
    /\ \E ioOk \in BOOLEAN :
          LET src == disk[inv[p].screenshotPath]
              ok == ioOk /\ src # NoFile
          IN /\ disk' = IF ok
                        THEN [disk EXCEPT ![inv[p].resizedPath] = File(src.by, Canvas)]
                        ELSE disk
             /\ touched' = IF ok
                           THEN Touch(Touch(touched, inv[p].screenshotPath, p),
                                      inv[p].resizedPath, p)
                           ELSE Touch(touched, inv[p].screenshotPath, p)
             /\ inv' = [inv EXCEPT ![p] =
                          IF ok
                          THEN [@ EXCEPT !.pc = "DeletingOriginal",
                                         !.created = @ \cup {inv[p].resizedPath}]
                          ELSE Thrown(@, "Input file is missing or unreadable")]
    /\ UNCHANGED << platform, now >>

\* fs.promises.unlink(path): the file is removed unless the call fails.
Unlink(p, path, ioOk) ==
    /\ disk' = IF ioOk /\ disk[path] # NoFile
               THEN [disk EXCEPT ![path] = NoFile]
               ELSE disk
    /\ touched' = Touch(touched, path, p)

\* await fs.promises.unlink(screenshotPath), in the resize branch
DeleteOriginal(p) ==
    /\ inv[p].pc = "DeletingOriginal"
    /\ \E ioOk \in BOOLEAN :
          /\ Unlink(p, inv[p].screenshotPath, ioOk)
          /\ inv' = [inv EXCEPT ![p] =
                       IF ioOk /\ disk[inv[p].screenshotPath] # NoFile
                       THEN [@ EXCEPT !.pc = "Reading",
                                      !.finalPath = inv[p].resizedPath]
                       ELSE Thrown(@, "unlink failed")]
    /\ UNCHANGED << platform, now >>

\* fs.promises.readFile(path) and toString("base64")
ReadFile(p) ==
    /\ inv[p].pc = "Reading"
    /\ \E ioOk \in BOOLEAN :
          LET data == disk[inv[p].finalPath]
          IN inv' = [inv EXCEPT ![p] =
                       IF ioOk /\ data # NoFile
                       THEN [@ EXCEPT !.pc = "Encoded", !.bytes = data]
                       ELSE Thrown(@, "read failed")]
    /\ touched' = Touch(touched, inv[p].finalPath, p)
    /\ UNCHANGED << platform, now, disk >>

\* The last unlink and the return of base64Data.
DeleteFinal(p) ==
    /\ inv[p].pc = "Encoded"
    /\ \E ioOk \in BOOLEAN :
          /\ Unlink(p, inv[p].finalPath, ioOk)
          /\ inv' = [inv EXCEPT ![p] =
                       IF ioOk /\ disk[inv[p].finalPath] # NoFile
                       THEN [@ EXCEPT !.pc = "Done", !.returned = inv[p].bytes]
                       ELSE Thrown(@, "unlink failed")]
    /\ UNCHANGED << platform, now >>

\* Date.now() advances.
Tick ==
    /\ now < MaxClock
    /\ now' = now + 1
    /\ UNCHANGED << platform, disk, touched, inv >>

(***************************************************************************)
(* Specifications.                                                         *)
(***************************************************************************)
\* Introspection outputs for the runs of the capture engine: no section,
\* one, two and three.
SampleStdout ==
    { << Line(<<"Graphics/Displays">>, "") >>,
      << Line(<<"Graphics/Displays">>, ""), Line(<<"Display", "Type">>, "LCD") >>,
      << Line(<<"Graphics/Displays">>, ""),
         Line(<<"UI", "Resolution">>, "1920 x 1080"), Line(<<"Displays">>, ""),
         Line(<<"UI", "Resolution">>, "819 x 1456") >>,
      << Line(<<"Graphics/Displays">>, ""),
         Line(<<"Display", "Type">>, "LCD"), Line(<<"Displays">>, ""),
         Line(<<"UI", "Resolution">>, "819 x 1456"), Line(<<"Displays">>, ""),
         Line(<<"Display", "Name">>, "Studio"),
         Line(<<"UI", "Resolution">>, "1920 x 1080") >> }

\* The lines of the resolution-filtered output; the last is the empty string
\* that split("\n") leaves after a final newline.
GrepKinds ==
    { Line(<<"Resolution">>, "2560 x 1600"),
      Line(<<"Resolution">>, "819 x 1456"),
      Line(<< >>, "") }

SampleGrep ==
    { << Line(<<"Resolution">>, "2560 x 1600") >>,
      << Line(<<"Resolution">>, "2560 x 1600"),
         Line(<<"Resolution">>, "819 x 1456"), Line(<< >>, "") >> }

\* One display section, which takes the enumerator to its alternative method.
RaceStdout == { << Line(<<"Display", "Type">>, "LCD") >> }
RaceGrep ==
    { << Line(<<"Resolution">>, "2560 x 1600"),
         Line(<<"Resolution">>, "819 x 1456") >> }

AllStdout == SeqsUpTo(LineKinds, MaxLines)
AllGrep == SeqsUpTo(GrepKinds, MaxGrepLines)

Enumerate(p, texts, outputs) ==
    \/ ExecProfilerOk(p, texts)
    \/ ExecProfilerFail(p)
    \/ ExecGrepOk(p, outputs)
    \/ ExecGrepFail(p)

\* The values of options.screenId and options.timeout.
ScreenIdOptions == {Absent} \cup { Some(n) : n \in 1..MaxScreenId }
TimeoutOptions == {Absent} \cup { Some(n) : n \in 0..(MaxElapsed - 1) }

Capture(p, screenIds, timeouts) ==
    \/ StartCapture(p, screenIds, timeouts)
    \/ BuildCommand(p)
    \/ ExecStart(p)
    \/ ExecTick(p)
    \/ ExecFinish(p)
    \/ ExecTimeout(p)
    \/ AfterCapture(p)
    \/ ResizeFinish(p)
    \/ DeleteOriginal(p)
    \/ ReadFile(p)
    \/ DeleteFinal(p)

\* One invocation of either operation, over every option within the bounds.
Next ==
    \/ Tick
    \/ StartList(1)
    \/ Enumerate(1, SampleStdout, SampleGrep)
    \/ Capture(1, ScreenIdOptions, TimeoutOptions)

Spec == Init /\ [][Next]_vars

\* The same, with exec's timer firing once the timeout has elapsed.
LiveSpec == Spec /\ WF_vars(ExecTimeout(1))

\* One listScreens call, over every introspection output within the bounds.
EnumNext == StartList(1) \/ Enumerate(1, AllStdout, AllGrep)

EnumSpec == Init /\ [][EnumNext]_vars

\* Concurrent captures, with and without the resize and the timeout.
RaceNext ==
    \/ Tick
    \/ \E p \in Invocations :
          \/ Enumerate(p, RaceStdout, RaceGrep)
          \/ Capture(p, {Absent, Some(2)}, {Absent, Some(1)})

RaceSpec == Init /\ [][RaceNext]_vars


(***************************************************************************)
(* Properties.                                                             *)
(***************************************************************************)
Terminal == {"Done", "CaptureFailed"}
Captures == { p \in Invocations : inv[p].op = "capture" }
Lists == { p \in Invocations : inv[p].op = "list" }

UnsupportedMessage == "Unsupported platform: " \o platform
ProfilerFailed == "Command failed: system_profiler"
GrepFailed == "Command failed: system_profiler | grep"

\* C1: once a capture call has returned or thrown, none of the temp files
\* it created (the raw capture, the resized file) is still on disk.
C1_NoTempFileRemains ==
    \A p \in Captures :
        inv[p].pc \in Terminal =>
            \A path \in inv[p].created : disk[path] = NoFile

\* C2, as stated: on an unsupported platform both capture and listScreens
\* end in a failure reporting the platform, and no external command is run.
C2_BothFailUnsupported ==
    platform \notin Supported =>
        \A p \in Captures \cup Lists :
            /\ inv[p].error = "Failed to capture screenshot: " \o UnsupportedMessage
            /\ inv[p].issued = {}

\* C2, amended: on an unsupported platform no external command is run;
\* capture throws, reporting the platform, and returns no bytes; listScreens
\* logs the unsupported platform and returns the Main Display fallback
\* without failing.
C2_UnsupportedPlatform ==
    platform \notin Supported =>
        /\ \A p \in Captures :
              /\ inv[p].pc = "CaptureFailed"
              /\ inv[p].error = "Failed to capture screenshot: " \o UnsupportedMessage
              /\ inv[p].returned = NoFile
              /\ inv[p].issued = {}
        /\ \A p \in Lists :
              /\ inv[p].pc = "Enumerated"
              /\ inv[p].error = ""
              /\ inv[p].logged = UnsupportedMessage
              /\ inv[p].screens = << Screen(1, "Main Display") >>
              /\ inv[p].issued = {}

C2_Witness ==
    /\ platform \notin Supported
    /\ inv[1].op = "capture"
    /\ inv[1].pc = "CaptureFailed"
    /\ inv[1].issued = {}

\* The list the structured parse of `stdout` builds, one display a section.
Parsed(stdout) == ParseLoop(DisplaySections(stdout), 0, << >>)

AfterCaptured == {"Resizing", "DeletingOriginal", "Reading", "Encoded", "Done"}
C4_ResizeIffScreenTwo ==
    \A p \in Captures :
        /\ inv[p].resizeRan => inv[p].screenId = 2
        /\ inv[p].pc \in AfterCaptured =>
              (inv[p].resizeRan <=> inv[p].screenId = 2)
        /\ inv[p].pc \in {"Reading", "Encoded", "Done"} =>
              inv[p].finalPath = IF inv[p].screenId = 2
                                 THEN inv[p].resizedPath
                                 ELSE inv[p].screenshotPath
        /\ inv[p].pc \in {"Encoded", "Done"} =>
              inv[p].bytes.size = IF inv[p].screenId = 2 THEN Canvas ELSE RawSize
        /\ inv[p].pc = "Done" =>
              /\ inv[p].returned = inv[p].bytes
              /\ inv[p].screenId # 2 => inv[p].returned = File(p, RawSize)

C4_Witness ==
    /\ inv[1].pc = "Done"
    /\ inv[1].screenId = 2
    /\ inv[1].resizeRan
    /\ inv[1].returned.size = Canvas

\* C5: on darwin the command targets the requested display when the
\* enumerator listed its id or the id is 1, and the primary display
\* otherwise; an unknown id or a failure of the enumerator never makes the
\* call fail: a call fails only once its capture command has been started.
ListedIds(p) == { inv[p].screens[i].id : i \in 1..Len(inv[p].screens) }
C5_DarwinTarget ==
    platform = "darwin" =>
        \A p \in Captures :
            /\ inv[p].cmd # NoCommand =>
                  /\ inv[p].cmd.tool = "screencapture"
                  /\ inv[p].cmd.path = inv[p].screenshotPath
                  /\ inv[p].cmd.display =
                        IF inv[p].screenId \in ListedIds(p) \/ inv[p].screenId = 1
                        THEN inv[p].screenId
                        ELSE 0
            /\ inv[p].pc \in {"Enumerated", "CommandBuilt"} => inv[p].error = ""
            /\ inv[p].pc = "CaptureFailed" => "screencapture" \in inv[p].issued

C5_Witness ==
    /\ platform = "darwin"
    /\ inv[1].screenId = 3
    /\ ListedIds(1) = {1}
    /\ inv[1].cmd.display = 0
    /\ inv[1].pc = "Done"

\* C6: a capture command still running when a positive timeout has elapsed
\* is aborted, and the call then ends in CaptureFailed with no bytes
\* returned; with the timeout absent or zero no timer is armed, however long
\* the command runs, and no call fails for having timed out.
Unbounded(p) == inv[p].timeoutOpt \in {Absent, Some(0)}
Overdue(p) ==
    /\ inv[p].pc = "Executing"
    /\ ~Unbounded(p)
    /\ inv[p].elapsed >= inv[p].timeoutOpt[1]
C6_Timeout ==
    \A p \in Invocations :
        /\ Overdue(p) ~> (inv[p].pc = "CaptureFailed" /\ inv[p].returned = NoFile)
        /\ [](Overdue(p) => ~ENABLED ExecFinish(p))
        /\ [](inv[p].pc = "Executing" /\ Unbounded(p) => ~ENABLED ExecTimeout(p))
        /\ [](inv[p].error = "Failed to capture screenshot: Command timed out"
                 => ~Unbounded(p))

C6_Witness ==
    /\ inv[1].pc = "CaptureFailed"
    /\ inv[1].timeoutOpt = Some(1)
    /\ inv[1].error = "Failed to capture screenshot: Command timed out"
    /\ inv[1].returned = NoFile

\* C7: no temp file path is written, read or deleted by more than one
\* capture invocation, whatever the interleaving.
C7_ExclusiveTempFiles ==
    \A path \in Paths : Cardinality(touched[path]) <= 1

\* C8: on darwin, when the structured parse finds n >= 1 display sections
\* and the alternative method does not replace them, listScreens returns n
\* descriptors with ids 1..n in section order, and the description of each
\* section in which a resolution line was found ends with that section's
\* resolution in parentheses.
Rebuilt(p) ==
    /\ inv[p].reran
    /\ inv[p].logged = ""
    /\ Len(Resolutions(inv[p].screenInfo)) > 1
ResolutionLines(section) ==
    { k \in 1..Len(section) :
        /\ IncludesLabelColon(section[k], "Resolution")
        /\ section[k].value # "" }
BaseNames(section) ==
    {"Display", "Unknown"} \cup { section[k].value : k \in 1..Len(section) }
C8_SequentialIds ==
    \A p \in Lists :
        LET sections == DisplaySections(inv[p].stdout)
            n == Len(sections)
        IN (platform = "darwin" /\ inv[p].pc = "Enumerated" /\ n >= 1 /\ ~Rebuilt(p)) =>
              /\ Len(inv[p].screens) = n
              /\ \A i \in 1..n :
                    /\ inv[p].screens[i].id = i
                    /\ ResolutionLines(sections[i]) # {} =>
                          \E k \in ResolutionLines(sections[i]),
                             base \in BaseNames(sections[i]) :
                              inv[p].screens[i].description =
                                  base \o " (" \o sections[i][k].value \o ")"

C8_Witness ==
    /\ inv[1].op = "list"
    /\ inv[1].pc = "Enumerated"
    /\ Len(DisplaySections(inv[1].stdout)) = 3
    /\ inv[1].screens = << Screen(1, "Display (1920 x 1080)"),
                           Screen(2, "Display (819 x 1456)"),
                           Screen(3, "LCD") >>

\* The state of the capture engine's state machine an invocation is in.
Stage(r) ==
    CASE r.pc \in {"Idle", "Profiling", "Grepping", "Enumerated"} -> "Idle"
      [] r.pc \in {"Resizing", "DeletingOriginal"} -> "Resizing"
      [] r.pc = "Reading" -> IF r.resizeRan THEN "Resizing" ELSE "Captured"
      [] OTHER -> r.pc

StageOrder ==
    { <<"Idle", "CommandBuilt">>, <<"CommandBuilt", "Executing">>,
      <<"Executing", "Captured">>, <<"Captured", "Resizing">>,
      <<"Captured", "Encoded">>, <<"Resizing", "Encoded">>,
      <<"Encoded", "Done">> }
    \cup { << s, "CaptureFailed" >> :
             s \in {"Idle", "Executing", "Captured", "Resizing", "Encoded"} }

\* C9: a capture invocation moves through Idle, CommandBuilt, Executing,
\* then CaptureFailed or Captured, then Resizing (only when screenId is 2),
\* Encoded and Done; the file is resized and read only after its command has
\* succeeded; the call ends either Done with bytes returned or CaptureFailed
\* with none, and a failure at any step is thrown as one error wrapping its
\* cause.
C9_StageOrder ==
    [][\A p \in Invocations :
          inv'[p].op = "capture" =>
              /\ \/ Stage(inv'[p]) = Stage(inv[p])
                 \/ << Stage(inv[p]), Stage(inv'[p]) >> \in StageOrder
              /\ Stage(inv'[p]) = "Resizing" => inv'[p].screenId = 2
              /\ << Stage(inv[p]), Stage(inv'[p]) >> = <<"Captured", "Encoded">>
                    => inv[p].screenId # 2
              /\ inv[p].pc \in Terminal => inv'[p] = inv[p]
              /\ touched'[inv'[p].screenshotPath] # touched[inv'[p].screenshotPath]
                    => inv[p].pc \in {"Executing"} \cup AfterCaptured
              /\ inv'[p].bytes # NoFile =>
                    Stage(inv'[p]) \in {"Encoded", "Done", "CaptureFailed"}
              /\ inv'[p].returned # NoFile <=> inv'[p].pc = "Done"
              /\ inv'[p].error # "" <=> inv'[p].pc = "CaptureFailed"
              /\ inv'[p].pc = "Done" => inv'[p].returned = inv'[p].bytes
    ]_vars

C9_Witness ==
    /\ inv[1].pc = "Done"
    /\ inv[1].resizeRan
    /\ inv[1].returned = File(1, Canvas)
    /\ inv[1].error = ""

\* C10, as stated: on darwin the resolution-filtered run happens if and only
\* if the structured parse yielded at most one display.
C10_RerunIffAtMostOne ==
    \A p \in Lists :
        (platform = "darwin" /\ inv[p].pc \in {"Grepping", "Enumerated"}
            /\ inv[p].logged # ProfilerFailed) =>
            (inv[p].reran <=> Len(Parsed(inv[p].stdout)) <= 1)

\* C10, amended: on darwin the resolution-filtered run happens if and only
\* if the structured parse found exactly one display section; with no
\* section found listScreens returns the Main Display fallback without that
\* run.  When the run finds k > 1 resolution lines, listScreens returns k
\* descriptors with ids 1..k in line order, the first labelled
\* "Main Display (resolution)" and the i-th other "External Display i
\* (resolution)"; when it finds at most one, the structured parse's list is
\* returned unchanged.
C10_Alternative ==
    \A p \in Lists :
        (platform = "darwin" /\ inv[p].pc \in {"Grepping", "Enumerated"}
            /\ inv[p].logged # ProfilerFailed) =>
            LET n == Len(DisplaySections(inv[p].stdout))
                lines == Resolutions(inv[p].screenInfo)
                k == Len(lines)
            IN /\ inv[p].reran <=> n = 1
               /\ inv[p].pc = "Grepping" => inv[p].reran
               /\ (n = 0 /\ inv[p].pc = "Enumerated") =>
                     inv[p].screens = << Screen(1, "Main Display") >>
               /\ (inv[p].reran /\ inv[p].pc = "Enumerated" /\ inv[p].logged = "") =>
                     IF k > 1
                     THEN /\ Len(inv[p].screens) = k
                          /\ \A i \in 1..k :
                                inv[p].screens[i] =
                                   Screen(i,
                                     (IF i = 1 THEN "Main Display"
                                      ELSE "External Display " \o ToString(i - 1))
                                     \o " (" \o lines[i].value \o ")")
                     ELSE inv[p].screens = Parsed(inv[p].stdout)

C10_Witness ==
    /\ inv[1].op = "list"
    /\ inv[1].pc = "Enumerated"
    /\ inv[1].reran
    /\ inv[1].screens = << Screen(1, "Main Display (2560 x 1600)"),
                           Screen(2, "External Display 1 (819 x 1456)"),
                           Screen(3, "External Display 2 (2560 x 1600)") >>

=============================================================================
